---- MODULE Spec2Model ----
(***************************************************************************)
(* Model of watchlibrus' schedule diff engine (watchlibrus/lessonplan.py): *)
(* the Lesson value type, compare_lessons, LessonDelta (constructor,       *)
(* __eq__, from_dict), the dict round trip of a plan and                   *)
(* LessonPlan.compare; and of the sync-messages command                    *)
(* (watchlibrus/main.py): sync_messages, send_notifications and the commit *)
(* of cmd_sync_messages.                                                   *)
(*                                                                         *)
(* Four specifications share the variables:                                *)
(*   Spec        two plans are drawn, then one of compare / compare in     *)
(*               both directions / compare with itself / dict round trip   *)
(*               followed by compare is applied;                           *)
(*   SyncSpec    runs of sync-messages against one messages database;      *)
(*   LessonSpec  two lessons are drawn, then compare_lessons is applied;   *)
(*   DeltaSpec   the sides of two deltas are drawn, then the constructor,  *)
(*               from_dict or __eq__ is applied.                           *)
(***************************************************************************)
EXTENDS Integers, Sequences, FiniteSets, TLC

VARIABLES
    old,         \* Spec: the plan compare is called on (self.lessons)
    new,         \* Spec: the plan passed to compare (other.lessons)
    op,          \* which operation has run ("init" before any)
    comparison,  \* Spec: what compare returned or raised
    restored,    \* Spec: LessonPlan.from_dict_list(old.to_list()).lessons
    swapped,     \* Spec: what new.compare(old) returned or raised
    la, lb,      \* LessonSpec: the two lessons handed to compare_lessons
    cmp,         \* LessonSpec: <<compare_lessons(la, lb), compare_lessons(lb, la)>>
    a1, a2,      \* DeltaSpec: sides of the first delta (a lesson or NoLesson)
    b1, b2,      \* DeltaSpec: sides of the second delta
    built,       \* DeltaSpec: what the constructor / from_dict returned or raised
    eq,          \* DeltaSpec: <<da == db, db == da, da == da>>
    messages,    \* SyncSpec: the committed rows of table messages, by id
    handled,     \* SyncSpec: how often the handler was invoked, by message id
    runs,        \* SyncSpec: the sync-messages runs so far, and whether one failed
    last         \* SyncSpec: the last run: its outcome and what it started from

\* The variables only SyncSpec uses.
syncVars == <<messages, handled, runs, last>>

vars ==
    <<old, new, op, comparison, restored, swapped, la, lb, cmp, a1, a2, b1, b2,
      built, eq, messages, handled, runs, last>>

----------------------------------------------------------------------------
(* Values *)

\* Python's None in an Optional[str] field and in the "raised" slot.
None == "<None>"

\* Python's None in an Optional[Lesson] position.
NoLesson == [none |-> TRUE]

\* The largest number of lessons the two generated plans hold together.
MaxLessons == 3

\* @dataclass Lesson
Lesson(day, hour, name, time, teacher, classroom) ==
    [day |-> day, hour |-> hour, name |-> name, time |-> time,
     teacher |-> teacher, classroom |-> classroom]

\* Truth value of an Optional[Lesson]: the dataclass defines neither __bool__
\* nor __len__, so every Lesson is truthy and only None is falsy.
Truthy(x) == x # NoLesson

----------------------------------------------------------------------------
(* compare_lessons *)

\* Mutant of compare_lessons: the classroom is left out of the content tuple.
compare_lessons_no_classroom(l1, l2) ==
    IF <<l1.day, l1.hour>> = <<l2.day, l2.hour>>
    THEN IF <<l1.time, l1.name, l1.teacher>> = <<l2.time, l2.name, l2.teacher>>
         THEN "EQUALS"
         ELSE "DIFFERENT"
    ELSE "OTHER"

\* Mutant of compare_lessons: the slot is the day alone.
compare_lessons_day_only(l1, l2) ==
    IF l1.day = l2.day
    THEN IF <<l1.time, l1.name, l1.teacher, l1.classroom>>
            = <<l2.time, l2.name, l2.teacher, l2.classroom>>
         THEN "EQUALS"
         ELSE "DIFFERENT"
    ELSE "OTHER"

\* compare_lessons(l1, l2) -> LessonCompareResult
compare_lessons(l1, l2) ==
    IF <<l1.day, l1.hour>> = <<l2.day, l2.hour>>
    THEN IF <<l1.time, l1.name, l1.teacher, l1.classroom>>
            = <<l2.time, l2.name, l2.teacher, l2.classroom>>
         THEN "EQUALS"
         ELSE "DIFFERENT"
    ELSE "OTHER"

----------------------------------------------------------------------------
(* LessonDelta *)

\* Mutant of LessonDelta_init: the guard is missing.
LessonDelta_init_unguarded(l1, l2) ==
    [raised |-> None, l1 |-> l1, l2 |-> l2]

\* LessonDelta.__init__: raises ValueError when both sides are falsy, else
\* stores them. "raised" is the exception that leaves the constructor (None:
\* an object was created, with fields l1 and l2).
LessonDelta_init(l1, l2) ==
    IF ~Truthy(l1) /\ ~Truthy(l2)
    THEN [raised |-> "ValueError", l1 |-> NoLesson, l2 |-> NoLesson]
    ELSE [raised |-> None, l1 |-> l1, l2 |-> l2]

\* _eq_l1_l2, the helper nested in LessonDelta.__eq__
eq_l1_l2(a, b) ==
    IF Truthy(a) /\ Truthy(b)
    THEN compare_lessons(a, b) = "EQUALS"
    ELSE (a = NoLesson) /\ (b = NoLesson)

\* Mutant of LessonDelta_eq: only the before sides are compared.
LessonDelta_eq_l1_only(self, other) ==
    eq_l1_l2(self.l1, other.l1)

\* LessonDelta.__eq__
LessonDelta_eq(self, other) ==
    eq_l1_l2(self.l1, other.l1) /\ eq_l1_l2(self.l2, other.l2)

----------------------------------------------------------------------------
(* dicts: a dict is the sequence of its <<key, value>> items in insertion *)
(* order; keys are unique.                                                *)

\* dict.__contains__
HasKey(d, k) == \E i \in 1..Len(d) : d[i][1] = k

\* dict.get(k): None when the key is missing. The values looked up this way
\* are Optional[dict], so a missing key gives NoDict.
NoDict == << <<None, None>> >>

\* dict[k] for a key the dict holds
Item(d, k) == d[CHOOSE i \in 1..Len(d) : d[i][1] = k][2]

\* dict.get(k)
Get(d, k) == IF HasKey(d, k) THEN Item(d, k) ELSE NoDict

\* Truth value of an Optional[dict]: None and the empty dict are falsy.
TruthyDict(d) == d # NoDict /\ d # <<>>

\* Lesson.to_dict
Lesson_to_dict(self) ==
    << <<"name", self.name>>, <<"day", self.day>>, <<"hour", self.hour>>,
       <<"time", self.time>>, <<"classroom", self.classroom>>,
       <<"teacher", self.teacher>> >>

\* Lesson.from_dict
Lesson_from_dict(input) ==
    Lesson(Item(input, "day"), Item(input, "hour"), Item(input, "name"),
           Item(input, "time"), Item(input, "teacher"), Item(input, "classroom"))

\* LessonPlan.to_list
to_list(lessons) == [i \in 1..Len(lessons) |-> Lesson_to_dict(lessons[i])]

\* LessonPlan.from_dict_list
from_dict_list(dicts) == [i \in 1..Len(dicts) |-> Lesson_from_dict(dicts[i])]

\* LessonDelta.from_dict
LessonDelta_from_dict(dict) ==
    LET d1 == Get(dict, "lesson-1")
        l1 == IF TruthyDict(d1) THEN Lesson_from_dict(d1) ELSE NoLesson
        d2 == Get(dict, "lesson-2")
        l2 == IF TruthyDict(d2) THEN Lesson_from_dict(d2) ELSE NoLesson
    IN  LessonDelta_init(l1, l2)

----------------------------------------------------------------------------
(* LessonPlan.compare *)

\* The inner loop of pass 1 from position j of other.lessons: the flags it
\* leaves and the constructor calls it made.
RECURSIVE ScanOther(_, _, _)
ScanOther(l1, other, j) ==
    IF j > Len(other)
    THEN [found_equal |-> FALSE, found_different |-> FALSE, appended |-> <<>>]
    ELSE LET c_result == compare_lessons(l1, other[j])
         IN  IF c_result = "DIFFERENT"
             THEN [found_equal |-> FALSE, found_different |-> TRUE,
                   appended |-> <<LessonDelta_init(l1, other[j])>>]
             ELSE IF c_result = "EQUALS"
             THEN [found_equal |-> TRUE, found_different |-> FALSE,
                   appended |-> <<>>]
             ELSE ScanOther(l1, other, j + 1)

\* Mutant of Pass1Step: the removal is built with both sides absent.
Pass1Step_empty_removal(l1, other) ==
    LET scan == ScanOther(l1, other, 1)
    IN  scan.appended \o
        (IF ~scan.found_equal /\ ~scan.found_different
         THEN <<LessonDelta_init(NoLesson, NoLesson)>>
         ELSE <<>>)

\* Mutant of Pass1Step: the scan looks for an equal lesson in the whole slot
\* before it reports a modification.
Pass1Step_prefers_equal(l1, other) ==
    LET scan == ScanOther(l1, other, 1)
    IN  IF \E j \in 1..Len(other) : compare_lessons(l1, other[j]) = "EQUALS"
        THEN <<>>
        ELSE scan.appended \o
             (IF ~scan.found_equal /\ ~scan.found_different
              THEN <<LessonDelta_init(l1, NoLesson)>>
              ELSE <<>>)

\* One iteration of pass 1's outer loop (for l1 in self.lessons): the
\* constructor calls whose results are appended to output.
Pass1Step(l1, other) ==
    LET scan == ScanOther(l1, other, 1)
    IN  scan.appended \o
        (IF ~scan.found_equal /\ ~scan.found_different
         THEN <<LessonDelta_init(l1, NoLesson)>>
         ELSE <<>>)

\* Pass 1 from position i of self.lessons.
RECURSIVE Pass1(_, _, _)
Pass1(self, other, i) ==
    IF i > Len(self) THEN <<>>
    ELSE Pass1Step(self[i], other) \o Pass1(self, other, i + 1)

\* Mutant of ScanSelf: only an equal lesson counts as found.
ScanSelf_equals_only(l2, self, i) ==
    \E k \in i..Len(self) : compare_lessons(self[k], l2) = "EQUALS"

\* The inner loop of pass 2 from position i of self.lessons: found_equal.
RECURSIVE ScanSelf(_, _, _)
ScanSelf(l2, self, i) ==
    IF i > Len(self) THEN FALSE
    ELSE IF compare_lessons(self[i], l2) \in {"DIFFERENT", "EQUALS"} THEN TRUE
    ELSE ScanSelf(l2, self, i + 1)

\* Mutant of Pass2Step: the addition is built from l1, the variable the inner
\* loop leaves at the last lesson of self.lessons, instead of l2.
Pass2Step_emits_old(l2, self) ==
    LET found_equal == ScanSelf(l2, self, 1)
        found_different == FALSE
    IN  IF ~found_equal /\ ~found_different
        THEN <<LessonDelta_init(NoLesson, IF Len(self) > 0 THEN self[Len(self)] ELSE l2)>>
        ELSE <<>>

\* Mutant of Pass2Step: only found_different, which this loop never sets,
\* guards the addition.
Pass2Step_ignores_found_equal(l2, self) ==
    LET found_equal == ScanSelf(l2, self, 1)
        found_different == FALSE
    IN  IF ~found_different
        THEN <<LessonDelta_init(NoLesson, l2)>>
        ELSE <<>>

\* One iteration of pass 2's outer loop (for l2 in other.lessons);
\* found_different is never set in this loop.
Pass2Step(l2, self) ==
    LET found_equal == ScanSelf(l2, self, 1)
        found_different == FALSE
    IN  IF ~found_equal /\ ~found_different
        THEN <<LessonDelta_init(NoLesson, l2)>>
        ELSE <<>>

\* Pass 2 from position j of other.lessons.
RECURSIVE Pass2(_, _, _)
Pass2(self, other, j) ==
    IF j > Len(other) THEN <<>>
    ELSE Pass2Step(other[j], self) \o Pass2(self, other, j + 1)

\* Mutant of CompareCalls: the additions are found before the modifications
\* and removals.
CompareCalls_additions_first(self, other) ==
    Pass2(self, other, 1) \o Pass1(self, other, 1)

\* The LessonDelta constructor calls of compare, in the order it makes them.
CompareCalls(self, other) ==
    Pass1(self, other, 1) \o Pass2(self, other, 1)

\* LessonPlan.compare: an exception of a constructor call leaves compare;
\* otherwise the objects built are the returned LessonPlanComparison.
compare(self, other) ==
    LET calls == CompareCalls(self, other)
    IN  IF \E k \in 1..Len(calls) : calls[k].raised # None
        THEN [raised |-> "ValueError", lesson_deltas |-> <<>>]
        ELSE [raised |-> None,
              lesson_deltas |-> [k \in 1..Len(calls) |->
                                    [l1 |-> calls[k].l1, l2 |-> calls[k].l2]]]

\* LessonPlanComparison.is_change
is_change(c) == Len(c.lesson_deltas) > 0

----------------------------------------------------------------------------
(* Inputs *)

\* The lessons the generated plans are drawn from: two days, two hours, and
\* contents that differ in the name and in the teacher being present.
LessonPool ==
    {Lesson(d, h, n, "08:00 - 08:45", t, "101") :
        d \in {0, 1}, h \in {1, 2}, n \in {"Math", "Physics"}, t \in {None, "Smith"}}

\* Sequences over S of length at most n.
SeqsUpTo(S, n) == UNION {[1..k -> S] : k \in 0..n}

\* The plans of the tests in tests/test_compare_lesson_plan.py.
Math1 == Lesson(0, 1, "Math", "08:00 - 08:45", "Smith", "101")
Math1Changed == Lesson(0, 1, "Math", "08:00 - 08:45", "Jones", "102")
Physics2 == Lesson(0, 2, "Physics", "08:50 - 09:35", "Johnson", "LAB1")
Chemistry2 == Lesson(0, 2, "Chemistry", "08:50 - 09:35", "Brown", "LAB2")
English3 == Lesson(0, 3, "English", "09:40 - 10:25", "Brown", "201")
French3 == Lesson(0, 3, "French", "09:40 - 10:25", "Martin", "202")
PE4 == Lesson(0, 4, "PE", "10:30 - 11:15", "Wilson", "GYM")

MixedOld == <<Math1, Physics2, English3>>
MixedNew == <<Math1Changed, French3, PE4>>

TestPlans ==
    { << <<Math1, Physics2>>, <<Math1, Physics2>> >>,
      << <<Math1, Physics2>>, <<Math1, Chemistry2>> >>,
      << <<Math1>>, <<Math1, Physics2>> >>,
      << <<Math1, Physics2>>, <<Math1>> >>,
      << MixedOld, MixedNew >> }

\* The lessons compare_lessons is tried on: every field takes two values, the
\* optional ones also None.
LessonUniverse ==
    {Lesson(d, h, n, tm, t, c) :
        d \in {0, 1}, h \in {1, 2}, n \in {"Math", "Physics"},
        tm \in {"08:00 - 08:45", "08:50 - 09:35"},
        t \in {None, "Smith", "Jones"}, c \in {None, "101", "102"}}

\* The sides a delta is built from: absent, or a lesson.
DeltaSides ==
    {NoLesson} \cup
    {Lesson(0, h, n, "08:00 - 08:45", t, "101") :
        h \in {1, 2}, n \in {"Math", "Physics"}, t \in {None, "Smith"}}

\* Values of the variables a specification does not use.
Idle == <<>>

----------------------------------------------------------------------------
(* Spec: LessonPlan.compare on two plans *)

EngineIdle ==
    /\ la = Idle /\ lb = Idle /\ cmp = Idle
    /\ a1 = Idle /\ a2 = Idle /\ b1 = Idle /\ b2 = Idle
    /\ built = Idle /\ eq = Idle
    /\ messages = Idle /\ handled = Idle /\ runs = Idle /\ last = Idle

Init ==
    /\ \/ /\ old \in SeqsUpTo(LessonPool, MaxLessons)
          /\ new \in SeqsUpTo(LessonPool, MaxLessons - Len(old))
       \/ \E plans \in TestPlans : old = plans[1] /\ new = plans[2]
    /\ op = "init"
    /\ comparison = Idle
    /\ restored = Idle
    /\ swapped = Idle
    /\ EngineIdle

\* compare_result = old_plan.compare(new_plan)
Compare ==
    /\ op = "init"
    /\ op' = "compare"
    /\ comparison' = compare(old, new)
    /\ UNCHANGED <<old, new, swapped, restored, la, lb, cmp, a1, a2, b1, b2, built, eq, syncVars>>

\* plan.compare(plan): the plan is compared with itself
CompareSelf ==
    /\ op = "init"
    /\ op' = "compare_self"
    /\ comparison' = compare(old, old)
    /\ UNCHANGED <<old, new, swapped, restored, la, lb, cmp, a1, a2, b1, b2, built, eq, syncVars>>

\* plan.compare(LessonPlan.from_dict_list(plan.to_list()))
RoundTrip ==
    /\ op = "init"
    /\ op' = "round_trip"
    /\ restored' = from_dict_list(to_list(old))
    /\ comparison' = compare(old, restored')
    /\ UNCHANGED <<old, new, swapped, la, lb, cmp, a1, a2, b1, b2, built, eq, syncVars>>

\* old.compare(new) and new.compare(old): the two directions of one comparison
CompareBoth ==
    /\ op = "init"
    /\ op' = "compare_both"
    /\ comparison' = compare(old, new)
    /\ swapped' = compare(new, old)
    /\ UNCHANGED <<old, new, restored, la, lb, cmp, a1, a2, b1, b2, built, eq, syncVars>>

Next == Compare \/ CompareBoth \/ CompareSelf \/ RoundTrip

Spec == Init /\ [][Next]_vars

----------------------------------------------------------------------------
(* Properties of Spec *)

\* The deltas of the comparison compare returned.
Deltas == comparison.lesson_deltas

SameSlot(x, y) == x.day = y.day /\ x.hour = y.hour

SameContent(x, y) ==
    x.time = y.time /\ x.name = y.name /\ x.teacher = y.teacher
    /\ x.classroom = y.classroom

\* s is t with some elements left out.
RECURSIVE IsSubseq(_, _)
IsSubseq(s, t) ==
    IF Len(s) = 0 THEN TRUE
    ELSE IF Len(t) = 0 THEN FALSE
    ELSE IF Head(s) = Head(t) THEN IsSubseq(Tail(s), Tail(t))
    ELSE IsSubseq(s, Tail(t))

\* C1 (as claimed): comparing a plan with itself returns a comparison with no
\* delta, so is_change() is false, whatever the plan holds.
C1_Identity ==
    op = "compare_self" => comparison.raised = None /\ ~is_change(comparison)

\* Lesson l of one plan has no lesson of equal content at its slot in plan.
Unmatched(l, plan) ==
    ~\E j \in 1..Len(plan) : SameSlot(l, plan[j]) /\ SameContent(l, plan[j])

\* Some delta refers to a lesson at l's slot.
SlotReported(l) ==
    \E k \in 1..Len(Deltas) :
        \/ Deltas[k].l1 # NoLesson /\ SameSlot(Deltas[k].l1, l)
        \/ Deltas[k].l2 # NoLesson /\ SameSlot(Deltas[k].l2, l)

\* C2 (as claimed): when a slot holds a lesson in one plan whose content equals
\* that of no lesson at the same slot in the other plan, compare reports a
\* change and some delta refers to a lesson of that slot.
C2_NoSuppression ==
    op = "compare" =>
        /\ \A i \in 1..Len(old) :
              Unmatched(old[i], new) => is_change(comparison) /\ SlotReported(old[i])
        /\ \A j \in 1..Len(new) :
              Unmatched(new[j], old) => is_change(comparison) /\ SlotReported(new[j])

\* C3: in every delta compare returns that has a before and an after lesson,
\* the two lessons have the same day and the same hour.
C3_SlotIsolation ==
    op # "init" =>
        \A k \in 1..Len(Deltas) :
            (Deltas[k].l1 # NoLesson /\ Deltas[k].l2 # NoLesson) =>
                /\ Deltas[k].l1.day = Deltas[k].l2.day
                /\ Deltas[k].l1.hour = Deltas[k].l2.hour

\* C3's case: a modification is paired with the second lesson of the new plan
\* although the new plan's first lesson, of another slot, was scanned first.
C3_Witness ==
    /\ op = "compare"
    /\ Len(new) >= 2
    /\ ~SameSlot(new[1], new[2])
    /\ \E k \in 1..Len(Deltas) :
          Deltas[k].l1 # NoLesson /\ Deltas[k].l2 = new[2]

\* The number of deltas that have a before lesson.
NumBefore == Cardinality({k \in 1..Len(Deltas) : Deltas[k].l1 # NoLesson})

\* C4: the deltas with a before lesson (modifications and removals) form the
\* first block, their before lessons in old-plan order; the pure additions
\* form the second block, their after lessons in new-plan order; and the
\* mixed batch of the tests gives exactly (Math, Math'), (Physics, none),
\* (English, French), (none, PE).
C4_TwoBlockOrdering ==
    op = "compare" =>
        /\ \A k \in 1..Len(Deltas) : (k <= NumBefore) <=> (Deltas[k].l1 # NoLesson)
        /\ IsSubseq([k \in 1..NumBefore |-> Deltas[k].l1], old)
        /\ IsSubseq([k \in 1..(Len(Deltas) - NumBefore) |-> Deltas[NumBefore + k].l2],
                    new)
        /\ (old = MixedOld /\ new = MixedNew) =>
              Deltas = << [l1 |-> Math1, l2 |-> Math1Changed],
                          [l1 |-> Physics2, l2 |-> NoLesson],
                          [l1 |-> English3, l2 |-> French3],
                          [l1 |-> NoLesson, l2 |-> PE4] >>

\* C4's case: the mixed batch has been compared, and both blocks are there.
C4_Witness ==
    /\ op = "compare"
    /\ old = MixedOld /\ new = MixedNew
    /\ Len(Deltas) = 4
    /\ NumBefore = 3

\* C5 (as claimed): no two deltas compare returns are equal under
\* LessonDelta.__eq__.
C5_Deduplicated ==
    op = "compare" =>
        \A j, k \in 1..Len(Deltas) : j < k => ~LessonDelta_eq(Deltas[j], Deltas[k])

\* C6 (as claimed): from_dict_list(to_list(P)) has P's lessons in P's order with
\* all six fields kept, and P.compare of it reports no change.
C6_RoundTrip ==
    op = "round_trip" =>
        /\ restored = old
        /\ comparison.raised = None
        /\ ~is_change(comparison)

\* C8: compare returns for any two plans without raising, every delta it
\* returns has at least one side present, and two empty plans give an empty
\* comparison.
C8_Totality ==
    /\ op # "init" =>
          /\ comparison.raised = None
          /\ \A k \in 1..Len(Deltas) :
                Deltas[k].l1 # NoLesson \/ Deltas[k].l2 # NoLesson
    /\ (op = "compare" /\ old = <<>> /\ new = <<>>) =>
          Deltas = <<>> /\ ~is_change(comparison)

\* C8's case: compare has returned both a removal and an addition, the deltas
\* built with one side absent.
C8_Witness ==
    /\ op = "compare"
    /\ comparison.raised = None
    /\ \E k \in 1..Len(Deltas) : Deltas[k].l1 # NoLesson /\ Deltas[k].l2 = NoLesson
    /\ \E k \in 1..Len(Deltas) : Deltas[k].l1 = NoLesson /\ Deltas[k].l2 # NoLesson

\* C11: a call old.compare(new) leaves both plans as they were, lesson for
\* lesson and field for field, and every lesson a returned delta refers to is
\* a lesson of the inputs: the before side one of old, the after side one of
\* new.
C11_ReadOnly ==
    [][(op = "init" /\ op' = "compare") =>
          /\ old' = old
          /\ new' = new
          /\ \A k \in 1..Len(comparison'.lesson_deltas) :
                LET d == comparison'.lesson_deltas[k]
                IN  /\ d.l1 # NoLesson => \E i \in 1..Len(old) : old[i] = d.l1
                    /\ d.l2 # NoLesson => \E j \in 1..Len(new) : new[j] = d.l2]_vars

\* C11's case: compare has returned a modification and an addition, deltas
\* that refer to lessons of both plans.
C11_Witness ==
    /\ op = "compare"
    /\ \E k \in 1..Len(Deltas) : Deltas[k].l1 # NoLesson /\ Deltas[k].l2 # NoLesson
    /\ \E k \in 1..Len(Deltas) : Deltas[k].l1 = NoLesson /\ Deltas[k].l2 # NoLesson

\* The position of the first lesson of plan at l's slot, 0 when there is none.
FirstAtSlot(l, plan) ==
    IF \E j \in 1..Len(plan) : SameSlot(l, plan[j])
    THEN CHOOSE j \in 1..Len(plan) :
            /\ SameSlot(l, plan[j])
            /\ \A i \in 1..(j - 1) : ~SameSlot(l, plan[i])
    ELSE 0

\* What pass 1 is claimed to emit for the old lesson l1.
Pass1Expected(l1) ==
    LET j == FirstAtSlot(l1, new)
    IN  IF j = 0 THEN <<[l1 |-> l1, l2 |-> NoLesson]>>
        ELSE IF SameContent(l1, new[j]) THEN <<>>
        ELSE <<[l1 |-> l1, l2 |-> new[j]]>>

\* The concatenation of the sequences F(plan[i]), from position i on.
RECURSIVE FlatMap(_, _, _)
FlatMap(F(_), plan, i) ==
    IF i > Len(plan) THEN <<>> ELSE F(plan[i]) \o FlatMap(F, plan, i + 1)

\* C12: for each old lesson, in old-plan order, compare emits nothing when the
\* first new lesson of its slot has equal content, the modification with that
\* first lesson when its content differs (also when a later lesson of the slot
\* is equal), the removal when no new lesson shares the slot; so the deltas
\* with a before side are at most one per old lesson.
C12_FirstMatch ==
    op = "compare" =>
        /\ SubSeq(Deltas, 1, NumBefore) = FlatMap(Pass1Expected, old, 1)
        /\ NumBefore <= Len(old)

\* C12's case: the old lesson is paired with the first new lesson of its slot,
\* of different content, although the second new lesson of the slot equals it.
C12_Witness ==
    /\ op = "compare"
    /\ Len(old) = 1 /\ Len(new) = 2
    /\ SameSlot(old[1], new[1]) /\ ~SameContent(old[1], new[1])
    /\ new[2] = old[1]
    /\ Deltas = <<[l1 |-> old[1], l2 |-> new[1]]>>

\* What pass 2 is claimed to emit for the new lesson l2.
Pass2Expected(l2) ==
    IF \E i \in 1..Len(old) : SameSlot(old[i], l2)
    THEN <<>>
    ELSE <<[l1 |-> NoLesson, l2 |-> l2]>>

\* The removal of the old lesson l1.
RemovalOf(l1) == <<[l1 |-> l1, l2 |-> NoLesson]>>

\* C13: a new lesson is emitted as a pure addition, once, iff no old lesson
\* shares its slot; with an empty old plan the result is one addition per new
\* lesson in new-plan order, with an empty new plan one removal per old lesson
\* in old-plan order.
C13_Additions ==
    op = "compare" =>
        /\ SubSeq(Deltas, NumBefore + 1, Len(Deltas)) = FlatMap(Pass2Expected, new, 1)
        /\ old = <<>> =>
              Deltas = [j \in 1..Len(new) |-> [l1 |-> NoLesson, l2 |-> new[j]]]
        /\ new = <<>> => Deltas = FlatMap(RemovalOf, old, 1)

\* C13's case: of two new lessons, the one whose slot holds an old lesson of
\* different content is not added and the one in a free slot is.
C13_Witness ==
    /\ op = "compare"
    /\ Len(old) = 1 /\ Len(new) = 2
    /\ SameSlot(old[1], new[1]) /\ ~SameContent(old[1], new[1])
    /\ ~SameSlot(old[1], new[2])
    /\ Deltas = <<[l1 |-> old[1], l2 |-> new[1]], [l1 |-> NoLesson, l2 |-> new[2]]>>

\* The lessons a comparison reports as removed, in the order of its deltas.
Removals(c) ==
    LET r == SelectSeq(c.lesson_deltas, LAMBDA d : d.l2 = NoLesson)
    IN  [k \in 1..Len(r) |-> r[k].l1]

\* The lessons a comparison reports as added, in the order of its deltas.
Additions(c) ==
    LET a == SelectSeq(c.lesson_deltas, LAMBDA d : d.l1 = NoLesson)
    IN  [k \in 1..Len(a) |-> a[k].l2]

\* C14: the lessons old.compare(new) reports as removals are the lessons
\* new.compare(old) reports as additions, in the same order, and the other way
\* round.
C14_Duality ==
    op = "compare_both" =>
        /\ comparison.raised = None /\ swapped.raised = None
        /\ Removals(comparison) = Additions(swapped)
        /\ Additions(comparison) = Removals(swapped)

\* C14's case: both directions have been compared for plans with two removals
\* and an addition.
C14_Witness ==
    /\ op = "compare_both"
    /\ Len(Removals(comparison)) = 2
    /\ Len(Additions(swapped)) = 2
    /\ Len(Additions(comparison)) = 1

----------------------------------------------------------------------------
(* LessonSpec: compare_lessons on two lessons *)

LessonInit ==
    /\ la \in LessonUniverse
    /\ lb \in LessonUniverse
    /\ op = "init"
    /\ cmp = Idle
    /\ old = Idle /\ new = Idle /\ comparison = Idle /\ restored = Idle
    /\ swapped = Idle
    /\ messages = Idle /\ handled = Idle /\ runs = Idle /\ last = Idle
    /\ a1 = Idle /\ a2 = Idle /\ b1 = Idle /\ b2 = Idle
    /\ built = Idle /\ eq = Idle

\* compare_lessons(la, lb), and with the arguments swapped
CompareLessons ==
    /\ op = "init"
    /\ op' = "compare_lessons"
    /\ cmp' = <<compare_lessons(la, lb), compare_lessons(lb, la)>>
    /\ UNCHANGED <<old, new, swapped, comparison, restored, la, lb, a1, a2, b1, b2, built, eq, syncVars>>

LessonNext == CompareLessons

LessonSpec == LessonInit /\ [][LessonNext]_vars

\* C9: compare_lessons returns OTHER iff the (day, hour) differ, EQUALS iff
\* they are equal and time, name, teacher and classroom are equal field for
\* field, DIFFERENT iff they are equal and one of the four fields differs;
\* and swapping the arguments gives the same result.
C9_ThreeValued ==
    op = "compare_lessons" =>
        /\ cmp[1] \in {"OTHER", "EQUALS", "DIFFERENT"}
        /\ (cmp[1] = "OTHER") <=> ~SameSlot(la, lb)
        /\ (cmp[1] = "EQUALS") <=> (SameSlot(la, lb) /\ SameContent(la, lb))
        /\ (cmp[1] = "DIFFERENT") <=>
              /\ SameSlot(la, lb)
              /\ \/ la.time # lb.time
                 \/ la.name # lb.name
                 \/ la.teacher # lb.teacher
                 \/ la.classroom # lb.classroom
        /\ cmp[2] = cmp[1]

\* C9's case: two lessons of one slot that differ only in the classroom, absent
\* in one and present in the other, have been compared.
C9_Witness ==
    /\ op = "compare_lessons"
    /\ SameSlot(la, lb)
    /\ la.time = lb.time /\ la.name = lb.name /\ la.teacher = lb.teacher
    /\ la.classroom = None /\ lb.classroom # None
    /\ cmp[1] = "DIFFERENT"

----------------------------------------------------------------------------
(* DeltaSpec: constructing and comparing deltas *)

DeltaInit ==
    /\ a1 \in DeltaSides /\ a2 \in DeltaSides
    /\ b1 \in DeltaSides /\ b2 \in DeltaSides
    /\ op = "init"
    /\ built = Idle
    /\ eq = Idle
    /\ old = Idle /\ new = Idle /\ comparison = Idle /\ restored = Idle
    /\ swapped = Idle
    /\ messages = Idle /\ handled = Idle /\ runs = Idle /\ last = Idle
    /\ la = Idle /\ lb = Idle /\ cmp = Idle

\* LessonDelta(a1, a2)
Construct ==
    /\ op = "init"
    /\ op' = "construct"
    /\ built' = LessonDelta_init(a1, a2)
    /\ UNCHANGED <<old, new, swapped, comparison, restored, la, lb, cmp, a1, a2, b1, b2, eq, syncVars>>

\* The dict LessonDelta.from_dict reads, for the sides l1 and l2: a present
\* side is its Lesson.to_dict(); an absent side is a missing key, a key
\* holding None or a key holding the empty dict.
DeltaDict(l1, l2, absent) ==
    LET Items(key, side) ==
            IF side # NoLesson THEN << <<key, Lesson_to_dict(side)>> >>
            ELSE IF absent = "missing" THEN <<>>
            ELSE IF absent = "null" THEN << <<key, NoDict>> >>
            ELSE << <<key, <<>> >> >>
    IN  Items("lesson-1", l1) \o Items("lesson-2", l2)

\* LessonDelta.from_dict(dict_)
FromDict ==
    /\ op = "init"
    /\ op' = "from_dict"
    /\ \E absent \in {"missing", "null", "empty"} :
          built' = LessonDelta_from_dict(DeltaDict(a1, a2, absent))
    /\ UNCHANGED <<old, new, swapped, comparison, restored, la, lb, cmp, a1, a2, b1, b2, eq, syncVars>>

\* LessonDelta(a1, a2) == LessonDelta(b1, b2), for two deltas that exist
DeltaEquals ==
    /\ op = "init"
    /\ LessonDelta_init(a1, a2).raised = None
    /\ LessonDelta_init(b1, b2).raised = None
    /\ op' = "eq"
    /\ LET da == LessonDelta_init(a1, a2)
           db == LessonDelta_init(b1, b2)
       IN  eq' = <<LessonDelta_eq(da, db), LessonDelta_eq(db, da), LessonDelta_eq(da, da)>>
    /\ UNCHANGED <<old, new, swapped, comparison, restored, la, lb, cmp, a1, a2, b1, b2, built, syncVars>>

DeltaNext == Construct \/ FromDict \/ DeltaEquals

DeltaSpec == DeltaInit /\ [][DeltaNext]_vars

\* C7 (as claimed): constructing a delta with both sides absent, directly or
\* through from_dict, fails with InvalidDeltaError.
C7_InvalidDeltaError ==
    (op \in {"construct", "from_dict"} /\ a1 = NoLesson /\ a2 = NoLesson) =>
        built.raised = "InvalidDeltaError"

\* C7 (amended): constructing a delta with both sides absent, directly or
\* through from_dict, fails with ValueError and creates no object; with a side
\* present it succeeds and the object holds both sides as given.
C7_DeltaInvariant ==
    op \in {"construct", "from_dict"} =>
        /\ (a1 = NoLesson /\ a2 = NoLesson) => built.raised = "ValueError"
        /\ (a1 # NoLesson \/ a2 # NoLesson) =>
              built.raised = None /\ built.l1 = a1 /\ built.l2 = a2
        /\ built.raised = None => (built.l1 # NoLesson \/ built.l2 # NoLesson)

\* C7's case: from_dict has been called for a delta with both sides absent and
\* has raised.
C7_Witness ==
    /\ op = "from_dict"
    /\ a1 = NoLesson /\ a2 = NoLesson
    /\ built.raised = "ValueError"

\* Two sides are both absent, or both present at one slot with equal content.
SideEq(x, y) ==
    \/ x = NoLesson /\ y = NoLesson
    \/ x # NoLesson /\ y # NoLesson /\ SameSlot(x, y) /\ SameContent(x, y)

\* C10: two deltas are equal iff their before sides are both absent or both
\* present with equal slot and content, and likewise their after sides; the
\* relation is reflexive and symmetric.
C10_DeltaEquality ==
    op = "eq" =>
        /\ eq[1] <=> (SideEq(a1, b1) /\ SideEq(a2, b2))
        /\ eq[2] = eq[1]
        /\ eq[3]

\* C10's case: two deltas with equal before sides have been compared, one with
\* its after side present and the other with it absent, and are not equal.
C10_Witness ==
    /\ op = "eq"
    /\ a1 # NoLesson /\ b1 = a1
    /\ a2 # NoLesson /\ b2 = NoLesson
    /\ ~eq[1]

----------------------------------------------------------------------------
(* sync-messages: sync_messages, send_notifications, cmd_sync_messages *)

\* The largest number of sync-messages runs.
MaxRuns == 3

\* The largest number of messages one capture returns.
MaxCaptured == 2

\* The message ids (the href of a message) and contents the portal shows.
MessageIds == {"m1", "m2"}
Contents == {"v1", "v2"}

\* Message: message_id and content (sender, subject and sent_at are stored and
\* read back like content).
MessagePool == [message_id : MessageIds, content : Contents]

\* A row of table messages, by its id: no row; or the content with
\* notified_at NULL ("unnotified") or set ("notified").
NoRow == [state |-> "absent", content |-> None]

\* The permutations of a set of ids, as sequences.
Orders(S) ==
    {o \in [1..Cardinality(S) -> S] : \A i, j \in 1..Cardinality(S) : o[i] = o[j] => i = j}

\* sync_messages: existing_ids, the captured ids that have a row
ExistingIds(rows, captured) ==
    {id \in {captured[i].message_id : i \in 1..Len(captured)} :
        rows[id].state # "absent"}

\* sync_messages: the insert loop from position i of messages. An INSERT of an
\* id that has a row violates the PRIMARY KEY and raises.
RECURSIVE InsertLoop(_, _, _, _)
InsertLoop(rows, captured, existing_ids, i) ==
    IF i > Len(captured) THEN [raised |-> None, rows |-> rows]
    ELSE LET message == captured[i]
         IN  IF message.message_id \notin existing_ids
             THEN IF rows[message.message_id].state # "absent"
                  THEN [raised |-> "IntegrityError", rows |-> rows]
                  ELSE InsertLoop(
                          [rows EXCEPT ![message.message_id] =
                              [state |-> "unnotified", content |-> message.content]],
                          captured, existing_ids, i + 1)
             ELSE InsertLoop(rows, captured, existing_ids, i + 1)

\* sync_messages(conn, config_section), on the connection's view of the rows:
\* capture is "error" when capture_messages_from_librus raises.
sync_messages(rows, capture, captured) ==
    IF capture = "error" THEN [raised |-> "CaptureError", rows |-> rows]
    ELSE InsertLoop(rows, captured, ExistingIds(rows, captured), 1)

\* Mutant of Unnotified: the SELECT has no WHERE clause.
Unnotified_all_rows(rows) ==
    {id \in MessageIds : rows[id].state # "absent"}

\* send_notifications: SELECT ... FROM messages WHERE notified_at IS NULL
Unnotified(rows) ==
    {id \in MessageIds : rows[id].state = "unnotified"}

\* send_notifications: the loop over fetchall() from position k of the rows
\* selected, in the order the SELECT returned them; the consumer raises for
\* the ids in fails. passed: the ids the consumer was called with;
\* succeeded: those whose call returned.
RECURSIVE NotifyLoop(_, _, _, _, _)
NotifyLoop(rows, order, fails, k, passed) ==
    IF k > Len(order)
    THEN [raised |-> None, rows |-> rows, passed |-> passed, succeeded |-> passed]
    ELSE IF order[k] \in fails
    THEN [raised |-> "HandlerError", rows |-> rows,
          passed |-> passed \cup {order[k]}, succeeded |-> passed]
    ELSE NotifyLoop([rows EXCEPT ![order[k]].state = "notified"], order, fails,
                    k + 1, passed \cup {order[k]})

\* send_notifications(conn, consumer)
send_notifications(rows, order, fails) == NotifyLoop(rows, order, fails, 1, {})

\* Mutant of StoredRows: the commit is in the finally block.
StoredRows_commit_in_finally(raised, before, view) == view

\* cmd_sync_messages: conn.commit() is reached only when nothing raised;
\* conn.close() in the finally block drops an uncommitted transaction.
StoredRows(raised, before, view) ==
    IF raised = None THEN view ELSE before

\* The outcomes of a run that did not commit.
Failures == {"CaptureError", "IntegrityError", "HandlerError"}

SyncInit ==
    /\ messages = [exists |-> FALSE, rows |-> [id \in MessageIds |-> NoRow]]
    /\ handled = [id \in MessageIds |-> 0]
    /\ runs = [n |-> 0, failed |-> FALSE]
    /\ last = [outcome |-> "none", before |-> [id \in MessageIds |-> NoRow],
               captured |-> {}, passed |-> {}, succeeded |-> {}, pending |-> {}]
    /\ op = "init"
    /\ old = Idle /\ new = Idle /\ comparison = Idle /\ restored = Idle
    /\ swapped = Idle
    /\ la = Idle /\ lb = Idle /\ cmp = Idle
    /\ a1 = Idle /\ a2 = Idle /\ b1 = Idle /\ b2 = Idle
    /\ built = Idle /\ eq = Idle

\* One run of the sync-messages command. Its inputs: whether the capture
\* raises, the messages captured, the ids the handler raises for, and the
\* order in which the SELECT of send_notifications returns its rows.
CmdSyncMessages ==
    /\ runs.n < MaxRuns
    /\ \E capture \in {"ok", "error"},
          captured \in SeqsUpTo(MessagePool, MaxCaptured),
          fails \in SUBSET MessageIds :
          LET synced == sync_messages(messages.rows, capture, captured)
          IN  \E order \in Orders(Unnotified(synced.rows)) :
                LET sent == IF synced.raised # None
                            THEN [raised |-> synced.raised, rows |-> synced.rows,
                                  passed |-> {}, succeeded |-> {}]
                            ELSE send_notifications(synced.rows, order, fails)
                IN  /\ messages' =
                          [exists |-> TRUE,
                           rows |-> StoredRows(sent.raised, messages.rows, sent.rows)]
                    /\ handled' =
                          [id \in MessageIds |->
                              handled[id] + (IF id \in sent.passed THEN 1 ELSE 0)]
                    /\ runs' = [n |-> runs.n + 1,
                                failed |-> runs.failed \/ sent.raised # None]
                    /\ last' =
                          [outcome |-> IF sent.raised = None THEN "committed"
                                       ELSE sent.raised,
                           before |-> messages.rows,
                           captured |-> IF capture = "ok"
                                        THEN {captured[i].message_id :
                                                 i \in 1..Len(captured)}
                                        ELSE {},
                           passed |-> sent.passed,
                           succeeded |-> sent.succeeded,
                           pending |-> IF last.outcome \in Failures
                                       THEN last.succeeded ELSE {}]
    /\ op' = "sync-messages"
    /\ UNCHANGED <<old, new, swapped, comparison, restored, la, lb, cmp,
                   a1, a2, b1, b2, built, eq>>

SyncNext == CmdSyncMessages

SyncSpec == SyncInit /\ [][SyncNext]_vars

\* The ids that have a row in the committed table.
Stored == {id \in MessageIds : messages.rows[id].state # "absent"}

\* C15: as long as every run has completed without error, the handler has been
\* invoked exactly once for every message id stored and never for another; a
\* completed run passes to the handler exactly the ids it stores for the first
\* time; a row whose notified_at is set is not passed to the handler by a later
\* run and is left as it is; and no committed row has notified_at unset.
C15_NotifyOnce ==
    /\ ~runs.failed =>
          \A id \in MessageIds : handled[id] = (IF id \in Stored THEN 1 ELSE 0)
    /\ last.outcome = "committed" =>
          last.passed = {id \in Stored : last.before[id].state = "absent"}
    /\ \A id \in MessageIds :
          last.before[id].state = "notified" =>
              id \notin last.passed /\ messages.rows[id] = last.before[id]
    /\ \A id \in MessageIds : messages.rows[id].state # "unnotified"

\* C15's case: a second run has completed that captured a stored, notified
\* message again together with a new one, and the handler has been invoked
\* once for each.
C15_Witness ==
    /\ runs.n = 2 /\ ~runs.failed
    /\ \E id \in last.captured :
          last.before[id].state = "notified" /\ handled[id] = 1
    /\ \E id \in last.captured :
          last.before[id].state = "absent" /\ handled[id] = 1

\* C16 (as claimed): a failed run leaves the rows as they were, and the
\* messages whose handler call succeeded in it are handed to the handler again
\* by the next run.
C16_HandedAgainByNextRun ==
    /\ last.outcome \in Failures => messages.rows = last.before
    /\ (last.outcome = "committed" /\ runs.n > 1) => last.pending \subseteq last.passed

\* C16 (amended): a failed run leaves the rows as they were; the messages whose
\* handler call succeeded in it have no notified row in storage; and the next
\* run, when it captures such a message again and completes, hands it to the
\* handler again.
C16_RolledBack ==
    /\ last.outcome \in Failures =>
          /\ messages.rows = last.before
          /\ \A id \in last.succeeded : messages.rows[id].state # "notified"
    /\ last.outcome = "committed" =>
          (last.pending \cap last.captured) \subseteq last.passed

\* C16's case: the handler raised after its call for another message had
\* succeeded, and the run left the rows as they were.
C16_Witness ==
    /\ last.outcome = "HandlerError"
    /\ last.succeeded # {}
    /\ messages.rows = last.before

====
